---- MODULE Spec2Model ----
(***************************************************************************)
(* A model of nativedb's MongoDbModel (src/src/nativedb/mongodb.py): the   *)
(* per-class binding state (_CLIENT, _DATABASE, _COLLECTION,               *)
(* _COLLECTION_INITIALIZED), the identity cache (_WEAKREFS), the           *)
(* instances, and the documents of the collections the class can reach.    *)
(* One model class "Model" with the declared fields a (plain) and          *)
(* b (Unique) and the default key field _id is used by the CRUD part; the  *)
(* class-definition part (__init_subclass__) runs over arbitrary           *)
(* declarations.                                                           *)
(***************************************************************************)
EXTENDS Integers, Sequences, FiniteSets, TLC

\* ------------------------------------------------------------------ bounds
MaxVal == 1
MaxKeys == 2
MaxInst == 2
MaxDecl == 3
NumThreads == 2

\* ------------------------------------------------------------------ values
\* Every value is a pair <<tag, payload>> so that values of different kinds
\* can be compared.
None == <<"none", 0>>
Val(n) == <<"val", n>>
Oid(n) == <<"oid", n>>
Vals == {Val(n) : n \in 1..MaxVal}
Oids == {Oid(n) : n \in 1..MaxKeys}

\* nativeserializer.Serializer.serialize as used by _get_store_vals: a
\* store-native value (an ObjectId) passes through, any other value is
\* converted to its storable representation.
Serialize(v) == IF v[1] = "oid" THEN v ELSE <<"ser", v>>

\* A deserializer that hands back the storable representation as it is.
DeserializeRaw(type, s) == s

\* nativeserializer.Serializer.deserialize(declared_type, storable).
Deserialize(type, s) == s[2]

\* ------------------------------------------------------------------ schema
ClsName == "Model"

\* The declaration of class Model: a: str, b: Unique[str].
ModelDecl == << <<"a", "plain">>, <<"b", "unique">> >>

\* cls.__annotations__, in declaration order.
Annotations == [i \in 1..Len(ModelDecl) |-> ModelDecl[i][1]]
AnnotationSet == {Annotations[i] : i \in 1..Len(Annotations)}
DocFields == {"_id"} \cup AnnotationSet

\* cls._get_field(k).unique_or_key of DbModel.
UniqueOrKey(k) ==
    \E i \in 1..Len(ModelDecl) :
        ModelDecl[i][1] = k /\ ModelDecl[i][2] \in {"unique", "key"}

\* cls._get_default(k) of DbModel: no field of Model declares a default.
GetDefault(k) == None

\* ---------------------------------------------------------------- binding
NoClient == "NoClient"
TheClient == "client"
NoneDb == "NoneDb"
DBs == {"d1", "d2"}
CollNames == {ClsName, "other"}
NoneColl == <<NoneDb, "None">>
Colls == DBs \X CollNames

VARIABLES
    client,       \* cls._CLIENT
    database,     \* cls._DATABASE
    collection,   \* cls._COLLECTION
    initialized,  \* cls._COLLECTION_INITIALIZED
    indexes,      \* unique indexes of the store: set of <<collection, field>>
    indexLog,     \* every create_index call issued, in order
    store,        \* store[c]: the set of documents of collection c
    nextId,       \* number of the next ObjectId the store generates
    insts,        \* every instance ever constructed, by identity (index)
    weakrefs,     \* cls._WEAKREFS: key value -> instance identity
    deleted,      \* identities on which delete() has been called
    last,         \* the last call: operation, arguments, outcome
    decl,         \* the annotations of the class defined: <<name, marker>>*
    keyField,     \* cls._KEY_FIELD of that class
    declState,    \* "undefined", then "MultipleKeys" or "registered"
    threads       \* threads[t]: where thread t is in its find_one call

bindVars == <<client, database, collection>>
initVars == <<initialized, indexes, indexLog>>
dataVars == <<store, nextId>>
cacheVars == <<insts, weakrefs, deleted>>
declVars == <<decl, keyField, declState>>
vars == <<client, database, collection, initialized, indexes, indexLog,
          store, nextId, insts, weakrefs, deleted, last,
          decl, keyField, declState, threads>>

\* The record every call leaves in last.
Call(op, arg, self, err, coll, ret) ==
    [op |-> op, arg |-> arg, self |-> self, err |-> err, coll |-> coll, ret |-> ret]

NoArg == <<>>
NoSelf == 0

\* ------------------------------------------------- set_database / client
DbArgs == ({"handle", "name"} \X DBs) \cup {<<"other", NoneDb>>}

\* set_database as it would be without the check of the client on line 148.
SetDatabaseErrAnyName(arg) ==
    IF arg[1] \in {"handle", "name"} THEN "ok" ELSE "NoDatabase"

\* MongoDbModel.set_database: the outcome, "ok" or the exception raised.
SetDatabaseErr(arg) ==
    IF arg[1] = "handle" THEN "ok"
    ELSE IF arg[1] = "name" /\ client # NoClient THEN "ok"
    ELSE "NoDatabase"

\* client.get_database(name): the handle of the database of that name.
SetDatabase(arg) ==
    /\ database' = IF SetDatabaseErr(arg) = "ok" THEN arg[2] ELSE database
    /\ last' = Call("set_database", arg, NoSelf, SetDatabaseErr(arg), NoneColl, <<>>)
    /\ UNCHANGED <<client, collection, initVars, dataVars, cacheVars, declVars, threads>>

\* MongoDbModel._set_client
SetClient(c) ==
    /\ client' = c
    /\ last' = Call("_set_client", <<"handle", c>>, NoSelf, "ok", NoneColl, <<>>)
    /\ UNCHANGED <<database, collection, initVars, dataVars, cacheVars, declVars, threads>>

\* ---------------------------------------------------------- set_collection
CollArgs == ({"handle"} \X Colls) \cup ({"name"} \X CollNames)
            \cup {<<"other", NoneDb>>}

SetCollectionErr(arg) ==
    IF arg[1] = "handle" THEN "ok"
    ELSE IF arg[1] = "name" /\ database # NoneDb THEN "ok"
    ELSE "NoDatabase"

\* database.get_collection(name) is the collection <<database, name>>.
SetCollectionTarget(arg) ==
    IF arg[1] = "handle" THEN arg[2] ELSE <<database, arg[2]>>

SetCollection(arg) ==
    /\ collection' = IF SetCollectionErr(arg) = "ok"
                     THEN SetCollectionTarget(arg) ELSE collection
    /\ last' = Call("set_collection", arg, NoSelf, SetCollectionErr(arg), NoneColl, <<>>)
    /\ UNCHANGED <<client, database, initVars, dataVars, cacheVars, declVars, threads>>

\* ---------------------------------------------------------- get_collection
\* get_collection as it would be if it looked at the bound database only.
ResolveCollectionDbOnly ==
    IF database # NoneDb THEN <<database, ClsName>> ELSE NoneColl

\* Lines 185-190: the bound collection, then overwritten by the collection
\* named after the class whenever a database is bound.
ResolveCollection ==
    LET c1 == IF collection # NoneColl THEN collection ELSE NoneColl
    IN  IF database # NoneDb THEN <<database, ClsName>> ELSE c1

GetCollectionErr == IF ResolveCollection = NoneColl THEN "NoCollection" ELSE "ok"

\* get_collection as it would be if it initialized on every call.
NeedsInitAlways == TRUE

\* Line 194: the guard of the one-time index creation.
NeedsInit == ~initialized

\* The unique/key fields in declaration order (the loop of _init_collection).
UniqueFields == SelectSeq(Annotations, UniqueOrKey)

IndexCalls(c) == [i \in 1..Len(UniqueFields) |-> <<c, UniqueFields[i]>>]

\* The store's unique indexes once get_collection has run.
IndexesAfter ==
    IF GetCollectionErr = "ok" /\ NeedsInit
    THEN indexes \cup
         {<<ResolveCollection, UniqueFields[i]>> : i \in 1..Len(UniqueFields)}
    ELSE indexes

\* The effect of get_collection on the class and on the store's indexes.
GetCollectionUpd ==
    IF GetCollectionErr = "ok" /\ NeedsInit
    THEN /\ indexes' = IndexesAfter
         /\ indexLog' = indexLog \o IndexCalls(ResolveCollection)
         /\ initialized' = TRUE
    ELSE UNCHANGED initVars

GetCollection ==
    /\ GetCollectionUpd
    /\ last' = Call("get_collection", NoArg, NoSelf, GetCollectionErr,
                    ResolveCollection, <<>>)
    /\ UNCHANGED <<bindVars, dataVars, cacheVars, declVars, threads>>

\* ------------------------------------------------------------------ store
\* Documents are functions over DocFields; a collection is a set of them.
DocsWithId(c, k) == {d \in store[c] : d["_id"] = k}

\* A filter that would match every document, whatever it asks for.
MatchesAny(d, q) == TRUE

\* A store filter matches the documents that agree with it on every field.
Matches(d, q) == \A k \in DOMAIN q : d[k] = q[k]

\* The store rejects a write that would give two documents of collection c
\* the same value in a field that has a unique index (DuplicateKeyError).
DuplicateKey(c, idx, newvals, exceptId) ==
    \E f \in DOMAIN newvals :
        /\ <<c, f>> \in idx
        /\ \E d \in store[c] : d["_id"] # exceptId /\ d[f] = newvals[f]

\* The order in which a cursor yields documents: by generated key.
RECURSIVE Cursor(_)
Cursor(S) ==
    IF S = {} THEN <<>>
    ELSE LET d == CHOOSE x \in S : \A y \in S : x["_id"][2] <= y["_id"][2]
         IN  <<d>> \o Cursor(S \ {d})

\* ---------------------------------------------------------- serialization
GetStoreVals(d) == [k \in DOMAIN d |-> Serialize(d[k])]

GetRetrieveVals(d) ==
    [k \in DOMAIN d |->
        IF k \in AnnotationSet THEN Deserialize(k, d[k]) ELSE d[k]]

\* --------------------------------------------------- instances and cache
\* self.__class__.__dict__.get(key): Model declares no class-level default.
ClassDictGet(k) == None

\* __init__ reads self._id on line 107; it is set only by the values passed.
InitRaises(values) == "_id" \notin DOMAIN values

\* The attributes __init__ leaves in self.__dict__ (lines 101-106).
InitVals(values) ==
    [k \in AnnotationSet \cup DOMAIN values |->
        IF k \in DOMAIN values THEN values[k] ELSE ClassDictGet(k)]

\* Line 107: the new instance is registered under its _id, replacing any
\* entry already there.
Register(wr, k, i) == [x \in DOMAIN wr \cup {k} |-> IF x = k THEN i ELSE wr[x]]

\* cls(**values) for values that carry an _id, on the cache state st; by
\* records the caller ("new", "_get" or "get_or_create").
Construct(st, values, by) ==
    LET i == Len(st.insts) + 1
    IN  [insts |-> Append(st.insts,
                     [vals |-> InitVals(values), live |-> TRUE, by |-> by]),
         weakrefs |-> Register(st.weakrefs, values["_id"], i),
         ret |-> i]

\* A cache check that takes any entry for a hit, dead referent or not.
CacheHitStale(st, k) == k \in DOMAIN st.weakrefs

\* Lines 201-202: the live instance the cache holds for key k, if any.
CacheHit(st, k) == k \in DOMAIN st.weakrefs /\ st.insts[st.weakrefs[k]].live

\* _get as it would be if a cache hit refreshed the instance from the document.
GetRefresh(st, doc) ==
    IF CacheHit(st, doc["_id"])
    THEN [insts |-> [st.insts EXCEPT ![st.weakrefs[doc["_id"]]].vals =
                        GetRetrieveVals(doc)],
          weakrefs |-> st.weakrefs,
          ret |-> st.weakrefs[doc["_id"]]]
    ELSE Construct(st, GetRetrieveVals(doc), "_get")

\* MongoDbModel._get
Get(st, doc) ==
    IF CacheHit(st, doc["_id"])
    THEN [insts |-> st.insts, weakrefs |-> st.weakrefs,
          ret |-> st.weakrefs[doc["_id"]]]
    ELSE Construct(st, GetRetrieveVals(doc), "_get")

\* [cls._get(doc) for doc in cursor]
RECURSIVE GetAll(_, _, _)
GetAll(st, docs, acc) ==
    IF docs = <<>> THEN [insts |-> st.insts, weakrefs |-> st.weakrefs, ret |-> acc]
    ELSE LET r == Get(st, Head(docs))
         IN  GetAll(r, Tail(docs), Append(acc, r.ret))

CacheState == [insts |-> insts, weakrefs |-> weakrefs, ret |-> 0]

Live == {i \in 1..Len(insts) : insts[i].live}

\* ------------------------------------------------------------- arguments
FieldVals(k) == IF k = "_id" THEN Oids ELSE Vals

\* Keyword arguments of new: any of the declared fields.
NewArgs == UNION {[S -> Vals] : S \in SUBSET AnnotationSet}

\* Filters of find, find_one, delete_all and get_or_create: at most one field.
Filters == {<<>>} \cup UNION {{k :> v : v \in FieldVals(k)} : k \in DocFields}

\* Keyword arguments of update: declared fields and an undeclared name.
UpdateArgs == UNION {[S -> Vals] : S \in SUBSET (AnnotationSet \cup {"zz"})}

\* ------------------------------------------------------------------- new
NewDoc(kw) ==
    [k \in AnnotationSet |-> IF k \in DOMAIN kw THEN kw[k] ELSE GetDefault(k)]

WithId(d, k) == [x \in DOMAIN d \cup {"_id"} |-> IF x = "_id" THEN k ELSE d[x]]

New(kw) ==
    LET c == ResolveCollection
        doc == NewDoc(kw)
        r == Construct(CacheState, WithId(doc, Oid(nextId)), "new")
    IN  /\ GetCollectionUpd
        /\ UNCHANGED <<bindVars, deleted, declVars, threads>>
        /\ IF GetCollectionErr # "ok"
           THEN /\ last' = Call("new", kw, NoSelf, GetCollectionErr, c, <<>>)
                /\ UNCHANGED <<dataVars, insts, weakrefs>>
           ELSE IF DuplicateKey(c, IndexesAfter, GetStoreVals(doc), None)
           THEN /\ last' = Call("new", kw, NoSelf, "UniqueConflict", c, <<>>)
                /\ UNCHANGED <<dataVars, insts, weakrefs>>
           ELSE /\ nextId <= MaxKeys
                /\ Len(insts) < MaxInst
                /\ store' = [store EXCEPT ![c] =
                               @ \cup {WithId(GetStoreVals(doc), Oid(nextId))}]
                /\ nextId' = nextId + 1
                /\ insts' = r.insts
                /\ weakrefs' = r.weakrefs
                /\ last' = Call("new", kw, NoSelf, "ok", c, <<r.ret>>)

\* ------------------------------------------------- find / find_one / query
\* The common part of the three retrievals: docs is what the store returned.
Retrieve(op, arg, docs) ==
    LET r == GetAll(CacheState, docs, <<>>)
    IN  /\ GetCollectionUpd
        /\ UNCHANGED <<bindVars, dataVars, deleted, declVars, threads>>
        /\ IF GetCollectionErr # "ok"
           THEN /\ last' = Call(op, arg, NoSelf, GetCollectionErr, ResolveCollection, <<>>)
                /\ UNCHANGED <<insts, weakrefs>>
           ELSE /\ Len(r.insts) <= MaxInst
                /\ insts' = r.insts
                /\ weakrefs' = r.weakrefs
                /\ last' = Call(op, arg, NoSelf, "ok", ResolveCollection, r.ret)

Found(q) ==
    IF GetCollectionErr = "ok"
    THEN Cursor({d \in store[ResolveCollection] : Matches(d, q)})
    ELSE <<>>

FirstOf(s) == IF s = <<>> THEN <<>> ELSE <<Head(s)>>

Find(f) == Retrieve("find", f, Found(GetStoreVals(f)))

FindOne(f) == Retrieve("find_one", f, FirstOf(Found(GetStoreVals(f))))

Query(q) == Retrieve("query", q, Found(q))

\* ------------------------------------------------------------ delete_all
DeleteAll(f) ==
    /\ GetCollectionUpd
    /\ UNCHANGED <<bindVars, nextId, cacheVars, declVars, threads>>
    /\ last' = Call("delete_all", f, NoSelf, GetCollectionErr, ResolveCollection, <<>>)
    /\ IF GetCollectionErr # "ok"
       THEN UNCHANGED store
       ELSE store' = [store EXCEPT ![ResolveCollection] =
                        {d \in @ : ~Matches(d, GetStoreVals(f))}]

\* --------------------------------------------------------- get_or_create
GetOrCreate(f) ==
    LET docs == FirstOf(Found(GetStoreVals(f)))
        r == Construct(CacheState, f, "get_or_create")
    IN  IF GetCollectionErr # "ok" \/ docs # <<>>
        THEN Retrieve("get_or_create", f, docs)
        ELSE /\ GetCollectionUpd
             /\ UNCHANGED <<bindVars, dataVars, deleted, declVars, threads>>
             /\ IF InitRaises(f)
                THEN /\ last' = Call("get_or_create", f, NoSelf, "AttributeError",
                                     ResolveCollection, <<>>)
                     /\ UNCHANGED <<insts, weakrefs>>
                ELSE /\ Len(insts) < MaxInst
                     /\ insts' = r.insts
                     /\ weakrefs' = r.weakrefs
                     /\ last' = Call("get_or_create", f, NoSelf, "ok",
                                     ResolveCollection, <<r.ret>>)

\* ---------------------------------------------------------------- update
\* Line 283: the keyword arguments that are declared fields.
Updates(kw) == [k \in DOMAIN kw \cap AnnotationSet |-> kw[k]]

\* update as it would be if it wrote the whole instance, as a save would.
SetDocFull(vals, u) == GetStoreVals([k \in AnnotationSet |-> vals[k]])

\* Line 288: the $set document of update_one, for the instance values vals
\* (already updated in memory) and the declared changes u.
SetDoc(vals, u) == GetStoreVals(u)

\* $set: the document with the given fields replaced.
SetFields(d, u) == [k \in DOMAIN d |-> IF k \in DOMAIN u THEN u[k] ELSE d[k]]

Update(i, kw) ==
    LET u == Updates(kw)
        k == insts[i].vals["_id"]
        c == ResolveCollection
    IN  /\ i \in Live
        /\ UNCHANGED <<bindVars, nextId, weakrefs, deleted, declVars, threads>>
        /\ IF DOMAIN u = {}
           THEN /\ last' = Call("update", kw, i, "ok", NoneColl, <<>>)
                /\ UNCHANGED <<initVars, store, insts>>
           ELSE /\ insts' = [insts EXCEPT ![i].vals = SetFields(@, u)]
                /\ GetCollectionUpd
                /\ IF GetCollectionErr # "ok"
                   THEN /\ last' = Call("update", kw, i, GetCollectionErr, c, <<>>)
                        /\ UNCHANGED store
                   ELSE IF /\ DocsWithId(c, k) # {}
                           /\ DuplicateKey(c, IndexesAfter,
                                           SetDoc(SetFields(insts[i].vals, u), u), k)
                   THEN /\ last' = Call("update", kw, i, "UniqueConflict", c, <<>>)
                        /\ UNCHANGED store
                   ELSE /\ last' = Call("update", kw, i, "ok", c, <<>>)
                        /\ store' = [store EXCEPT ![c] =
                              {IF d["_id"] = k
                               THEN SetFields(d, SetDoc(SetFields(insts[i].vals, u), u))
                               ELSE d : d \in @}]

\* ---------------------------------------------------------------- delete
\* dict.pop(key) without a default.
Pop(wr, k) == [x \in DOMAIN wr \ {k} |-> wr[x]]

Delete(i) ==
    LET k == insts[i].vals["_id"]
        c == ResolveCollection
    IN  /\ i \in Live
        /\ GetCollectionUpd
        /\ UNCHANGED <<bindVars, nextId, insts, declVars, threads>>
        /\ deleted' = deleted \cup {i}
        /\ IF GetCollectionErr # "ok"
           THEN /\ last' = Call("delete", NoArg, i, GetCollectionErr, c, <<>>)
                /\ UNCHANGED <<store, weakrefs>>
           ELSE /\ store' = [store EXCEPT ![c] = @ \ DocsWithId(c, k)]
                /\ IF k \in DOMAIN weakrefs
                   THEN /\ weakrefs' = Pop(weakrefs, k)
                        /\ last' = Call("delete", NoArg, i, "ok", c, <<>>)
                   ELSE /\ UNCHANGED weakrefs
                        /\ last' = Call("delete", NoArg, i, "KeyError", c, <<>>)

\* ------------------------------------------------------ the caller's side
\* inst.field = v: an in-memory-only change (docstring of update, line 277).
SetAttr(i, f, v) ==
    /\ i \in Live
    /\ insts[i].vals[f] # v
    /\ insts' = [insts EXCEPT ![i].vals[f] = v]
    /\ last' = Call("setattr", f :> v, i, "ok", NoneColl, <<>>)
    /\ UNCHANGED <<bindVars, initVars, dataVars, weakrefs, deleted, declVars, threads>>

\* The caller drops its last reference: the instance is collected and the
\* weak reference of line 107 from now on yields None.
Drop(i) ==
    /\ i \in Live
    /\ insts' = [insts EXCEPT ![i].live = FALSE]
    /\ last' = Call("drop", NoArg, i, "ok", NoneColl, <<>>)
    /\ UNCHANGED <<bindVars, initVars, dataVars, weakrefs, deleted, declVars, threads>>

\* ---------------------------------------------------------------- threads
\* Threads that each call find_one(_id=k), with no lock between them: a
\* step of a thread is one read or one write of the shared class state.
Threads == 1..NumThreads

NoDoc == <<>>

\* A thread that is outside find_one.
ThreadIdle ==
    [pc |-> "idle", key |-> None, coll |-> NoneColl, doc |-> NoDoc,
     miss |-> FALSE, ret |-> 0, err |-> "ok"]

sharedVars == <<bindVars, initVars, dataVars, cacheVars, last, declVars>>

\* find_one(_id=k) is called on thread t.
T_Call(t, k) ==
    /\ threads[t].pc = "idle"
    /\ threads' = [threads EXCEPT ![t] = [ThreadIdle EXCEPT !.pc = "resolve", !.key = k]]
    /\ UNCHANGED sharedVars

\* get_collection up to and including the read of the flag on line 194.
T_ReadFlag(t) ==
    /\ threads[t].pc = "resolve"
    /\ threads' = [threads EXCEPT ![t] =
          IF GetCollectionErr # "ok"
          THEN [@ EXCEPT !.pc = "done", !.err = GetCollectionErr]
          ELSE [@ EXCEPT !.pc = IF NeedsInit THEN "init" ELSE "query",
                         !.coll = ResolveCollection]]
    /\ UNCHANGED sharedVars

\* _init_collection as it would be if it looked at the flag once more.
RaceIndexCallsChecked(t) ==
    IF initialized THEN <<>> ELSE IndexCalls(threads[t].coll)

\* The create_index calls of _init_collection on thread t (lines 178-180).
RaceIndexCalls(t) == IndexCalls(threads[t].coll)

\* _init_collection on a thread that has read the flag as False.
T_InitCollection(t) ==
    /\ threads[t].pc = "init"
    /\ indexes' = indexes \cup
                  {RaceIndexCalls(t)[n] : n \in 1..Len(RaceIndexCalls(t))}
    /\ indexLog' = indexLog \o RaceIndexCalls(t)
    /\ initialized' = TRUE
    /\ threads' = [threads EXCEPT ![t].pc = "query"]
    /\ UNCHANGED <<bindVars, dataVars, cacheVars, last, declVars>>

\* collection.find_one({'_id': k}) of line 227.
T_Query(t) ==
    LET docs == Cursor({d \in store[threads[t].coll] :
                          Matches(d, GetStoreVals("_id" :> threads[t].key))})
    IN  /\ threads[t].pc = "query"
        /\ threads' = [threads EXCEPT ![t] =
              IF docs = <<>> THEN [@ EXCEPT !.pc = "done"]
              ELSE [@ EXCEPT !.pc = "check", !.doc = docs[1]]]
        /\ UNCHANGED sharedVars

\* _get, lines 200-202: the look into the cache.
T_Check(t) ==
    LET k == threads[t].doc["_id"]
    IN  /\ threads[t].pc = "check"
        /\ threads' = [threads EXCEPT ![t] =
              IF CacheHit(CacheState, k)
              THEN [@ EXCEPT !.pc = "done", !.ret = weakrefs[k]]
              ELSE [@ EXCEPT !.pc = "construct", !.miss = TRUE]]
        /\ UNCHANGED sharedVars

\* _get as it would be if it looked into the cache again before constructing.
RaceConstructChecked(doc) == Get(CacheState, doc)

\* _get, lines 205-206, on a thread that has found no live cached instance.
RaceConstruct(doc) == Construct(CacheState, GetRetrieveVals(doc), "_get")

T_Construct(t) ==
    LET r == RaceConstruct(threads[t].doc)
    IN  /\ threads[t].pc = "construct"
        /\ Len(insts) < MaxInst
        /\ insts' = r.insts
        /\ weakrefs' = r.weakrefs
        /\ threads' = [threads EXCEPT ![t] = [@ EXCEPT !.pc = "done", !.ret = r.ret]]
        /\ UNCHANGED <<bindVars, initVars, dataVars, deleted, last, declVars>>

\* find_one returns on thread t; the caller keeps what it returned.
T_Return(t) ==
    /\ threads[t].pc = "done"
    /\ threads' = [threads EXCEPT ![t] = ThreadIdle]
    /\ UNCHANGED sharedVars

\* An instance a thread is about to return is referenced by that thread.
Held(i) == \E t \in Threads : threads[t].ret = i

\* ------------------------------------------------------ class definition
Markers == {"plain", "unique", "key"}
DeclNames == {"_id", "a", "b", "c"}

\* Declarations: sequences of distinct names, each with a marker.
Decls ==
    {d \in UNION {[1..n -> DeclNames \X Markers] : n \in 0..MaxDecl} :
        \A i, j \in DOMAIN d : i # j => d[i][1] # d[j][1]}

\* Lines 122-127: the loop over cls.__annotations__, from position i with
\* cls._KEY_FIELD = kf; the result is <<cls._KEY_FIELD, outcome>>.
RECURSIVE ScanKeys(_, _, _)
ScanKeys(d, i, kf) ==
    IF i > Len(d) THEN <<kf, "registered">>
    ELSE IF d[i][2] = "key"
         THEN IF kf # "_id" THEN <<kf, "MultipleKeys">>
              ELSE ScanKeys(d, i + 1, d[i][1])
         ELSE ScanKeys(d, i + 1, kf)

\* MongoDbModel.__init_subclass__ for a direct subclass of MongoDbModel
\* (it inherits _KEY_FIELD = '_id'), given no database or collection.
InitSubclass ==
    /\ declState = "undefined"
    /\ keyField' = ScanKeys(decl, 1, keyField)[1]
    /\ declState' = ScanKeys(decl, 1, keyField)[2]
    /\ UNCHANGED <<bindVars, initVars, dataVars, cacheVars, last, decl, threads>>

\* ------------------------------------------------------- specifications
Init ==
    /\ client = TheClient
    /\ database = NoneDb
    /\ collection = NoneColl
    /\ initialized = FALSE
    /\ indexes = {}
    /\ indexLog = <<>>
    /\ store = [c \in Colls |-> {}]
    /\ nextId = 1
    /\ insts = <<>>
    /\ weakrefs = <<>>
    /\ deleted = {}
    /\ last = Call("idle", NoArg, NoSelf, "ok", NoneColl, <<>>)
    /\ decl = ModelDecl
    /\ keyField = "_id"
    /\ declState = "registered"
    /\ threads = [t \in Threads |-> ThreadIdle]

\* The caller takes the result of the call; the next call can start.
Idle == Call("idle", NoArg, NoSelf, "ok", NoneColl, <<>>)

Return ==
    /\ last # Idle
    /\ last' = Idle
    /\ UNCHANGED <<bindVars, initVars, dataVars, cacheVars, declVars, threads>>

Ready == last = Idle

\* The CRUD operations of a class whose database can be set at any time.
Next ==
    \/ Return
    \/ \E arg \in DbArgs : Ready /\ SetDatabase(arg)
    \/ \E kw \in NewArgs : Ready /\ New(kw)
    \/ \E f \in Filters : Ready /\ Find(f)
    \/ \E f \in Filters : Ready /\ FindOne(f)
    \/ \E f \in Filters : Ready /\ Query(GetStoreVals(f))
    \/ \E f \in Filters : Ready /\ DeleteAll(f)
    \/ \E f \in Filters : Ready /\ GetOrCreate(f)
    \/ \E i \in 1..Len(insts), kw \in UpdateArgs : Ready /\ Update(i, kw)
    \/ \E i \in 1..Len(insts) : Ready /\ Delete(i)
    \/ \E i \in 1..Len(insts), f \in AnnotationSet, v \in Vals :
           Ready /\ SetAttr(i, f, v)
    \/ \E i \in 1..Len(insts) : Ready /\ Drop(i)

Spec == Init /\ [][Next]_vars

\* new(b=v): the calls of new that decide about the unique field.
BindNewArgs == [{"b"} -> Vals]

\* The binding operations of a class, with get_collection and operations
\* that call it and fill, read and empty the collection it resolves to.
NextBind ==
    \/ Return
    \/ \E c \in {NoClient, TheClient} : Ready /\ SetClient(c)
    \/ \E arg \in DbArgs : Ready /\ SetDatabase(arg)
    \/ \E arg \in CollArgs : Ready /\ SetCollection(arg)
    \/ Ready /\ GetCollection
    \/ \E kw \in BindNewArgs : Ready /\ New(kw)
    \/ Ready /\ FindOne(<<>>)
    \/ Ready /\ DeleteAll(<<>>)

SpecBind == Init /\ [][NextBind]_vars

\* set_collection with a handle, with a name, and with neither.
OpsCollArgs ==
    {<<"handle", <<"d1", "other">>>>, <<"name", "other">>, <<"other", NoneDb>>}

\* Every operation that goes through get_collection, on a class whose
\* database and collection can be bound at any time.
NextOps ==
    \/ Return
    \/ \E arg \in DbArgs : Ready /\ SetDatabase(arg)
    \/ \E arg \in OpsCollArgs : Ready /\ SetCollection(arg)
    \/ Ready /\ GetCollection
    \/ Ready /\ New(<<>>)
    \/ Ready /\ Find(<<>>)
    \/ Ready /\ FindOne(<<>>)
    \/ Ready /\ Query(<<>>)
    \/ Ready /\ DeleteAll(<<>>)
    \/ \E i \in 1..Len(insts) : Ready /\ Update(i, "b" :> Val(1))
    \/ \E i \in 1..Len(insts) : Ready /\ Delete(i)

SpecOps == Init /\ [][NextOps]_vars

\* find_one(key=K) for the keys the store generates.
KeyFilters == {"_id" :> k : k \in Oids}

\* The round trip of a record: new, then find_one on the resulting key, with
\* the instance new returned still reachable or dropped in between; nothing
\* here changes an instance in memory or a stored document.
NextRound ==
    \/ Return
    \/ \E arg \in DbArgs : Ready /\ SetDatabase(arg)
    \/ \E kw \in NewArgs : Ready /\ New(kw)
    \/ \E f \in KeyFilters : Ready /\ FindOne(f)
    \/ \E i \in 1..Len(insts) : Ready /\ Drop(i)

SpecRound == Init /\ [][NextRound]_vars

\* The retrievals of a class bound to one database, and what the caller does
\* with the instances in between: it assigns the attribute b in memory
\* (None included) and drops references.
NextCache ==
    \/ Return
    \/ Ready /\ SetDatabase(<<"handle", "d1">>)
    \/ \E kw \in NewArgs : Ready /\ New(kw)
    \/ \E f \in Filters : Ready /\ Find(f)
    \/ \E f \in Filters : Ready /\ FindOne(f)
    \/ \E f \in Filters : Ready /\ Query(GetStoreVals(f))
    \/ \E i \in 1..Len(insts), v \in Vals \cup {None} :
           Ready /\ SetAttr(i, "b", v)
    \/ \E i \in 1..Len(insts) : Ready /\ Drop(i)

SpecCache == Init /\ [][NextCache]_vars

InitDecl ==
    /\ client = TheClient
    /\ database = NoneDb
    /\ collection = NoneColl
    /\ initialized = FALSE
    /\ indexes = {}
    /\ indexLog = <<>>
    /\ store = [c \in Colls |-> {}]
    /\ nextId = 1
    /\ insts = <<>>
    /\ weakrefs = <<>>
    /\ deleted = {}
    /\ last = Call("idle", NoArg, NoSelf, "ok", NoneColl, <<>>)
    /\ decl \in Decls
    /\ keyField = "_id"
    /\ declState = "undefined"
    /\ threads = [t \in Threads |-> ThreadIdle]

NextDecl == InitSubclass

SpecDecl == InitDecl /\ [][NextDecl]_vars

\* A document an earlier run of the program has left in the store; the
\* values of the unique field b differ from document to document.
StoredDoc(n) ==
    [k \in DocFields |->
        IF k = "_id" THEN Oid(n)
        ELSE IF k = "b" /\ n <= MaxVal THEN Serialize(Val(n))
        ELSE Serialize(None)]

\* A process that starts on a store that holds documents already.
InitThreads ==
    /\ client = TheClient
    /\ database = NoneDb
    /\ collection = NoneColl
    /\ initialized = FALSE
    /\ indexes = {}
    /\ indexLog = <<>>
    /\ store = [c \in Colls |->
                  IF c = <<"d1", ClsName>>
                  THEN {StoredDoc(n) : n \in 1..MaxKeys} ELSE {}]
    /\ nextId = MaxKeys + 1
    /\ insts = <<>>
    /\ weakrefs = <<>>
    /\ deleted = {}
    /\ last = Call("idle", NoArg, NoSelf, "ok", NoneColl, <<>>)
    /\ decl = ModelDecl
    /\ keyField = "_id"
    /\ declState = "registered"
    /\ threads = [t \in Threads |-> ThreadIdle]

\* The key the threads retrieve: that of the first stored document.
RaceKey == Oid(1)

\* Threads calling find_one(_id=RaceKey) without synchronization, while the
\* main thread binds a database and callers drop the instances they hold.
NextThreads ==
    \/ Return
    \/ \E d \in DBs : Ready /\ SetDatabase(<<"handle", d>>)
    \/ \E i \in 1..Len(insts) : Ready /\ ~Held(i) /\ Drop(i)
    \/ \E t \in Threads : T_Call(t, RaceKey)
    \/ \E t \in Threads : T_ReadFlag(t)
    \/ \E t \in Threads : T_InitCollection(t)
    \/ \E t \in Threads : T_Query(t)
    \/ \E t \in Threads : T_Check(t)
    \/ \E t \in Threads : T_Construct(t)
    \/ \E t \in Threads : T_Return(t)

SpecThreads == InitThreads /\ [][NextThreads]_vars

\* ------------------------------------------------------------ properties
\* The operations that call get_collection and record what it resolved.
Resolved == last.coll # NoneColl

\* The collection of the first successful get_collection of the class: the
\* one the unique indexes were created on.
FirstResolved == IF indexLog = <<>> THEN NoneColl ELSE indexLog[1][1]

\* C3: get_collection returns the explicitly bound collection whenever one
\* has been set for the class, whether or not a database is bound too; only
\* with no bound collection does it return the collection named after the
\* class in the bound database.
C3_BoundCollectionWins ==
    (last.op = "get_collection" /\ last.err = "ok") =>
        last.coll = IF collection # NoneColl THEN collection
                    ELSE <<database, ClsName>>

\* C5: once get_collection has returned a collection for the class, every
\* later get_collection returns that same collection, whatever set_database
\* and set_collection calls happened in between.
C5_CollectionFixed ==
    (last.op = "get_collection" /\ last.err = "ok") => last.coll = FirstResolved

\* The number of create_index calls issued for field k.
IndexCount(k) == Cardinality({n \in 1..Len(indexLog) : indexLog[n][2] = k})

\* C4: unique indexes are created on the first successful get_collection
\* and never again: once an operation has resolved a collection the class
\* is initialized, and every unique/key field has had create_index exactly
\* once (no other field ever), however many get_collection calls followed.
C4_IndexOnce ==
    /\ Resolved => initialized
    /\ \A k \in AnnotationSet :
          IndexCount(k) = IF initialized /\ UniqueOrKey(k) THEN 1 ELSE 0

\* C4 witness: a get_collection on an initialized class that resolved another
\* collection than the first one, which holds a document since, and still
\* one create_index call only.
C4_Witness ==
    /\ last.op = "get_collection" /\ last.err = "ok"
    /\ last.coll # FirstResolved
    /\ store[FirstResolved] # {}
    /\ Len(indexLog) = 1

\* C10: set_collection by name raises NoDatabase when no database is bound,
\* set_database by name raises NoDatabase when there is no client; with a
\* ready handle both succeed and bind it; a failing call leaves the bound
\* database and the bound collection as they were.
C10_BindingErrors ==
    [][/\ last'.op = "set_database" =>
            /\ (last'.arg[1] = "name" /\ client = NoClient) => last'.err = "NoDatabase"
            /\ last'.arg[1] = "handle" =>
                  (last'.err = "ok" /\ database' = last'.arg[2])
       /\ last'.op = "set_collection" =>
            /\ (last'.arg[1] = "name" /\ database = NoneDb) => last'.err = "NoDatabase"
            /\ last'.arg[1] = "handle" =>
                  (last'.err = "ok" /\ collection' = last'.arg[2])
       /\ (last'.op \in {"set_database", "set_collection"} /\ last'.err # "ok") =>
            (database' = database /\ collection' = collection)]_vars

\* C10 witness: set_database by name has just failed for want of a client, on
\* a class that has both a database and a collection bound.
C10_Witness ==
    /\ last.op = "set_database" /\ last.arg[1] = "name" /\ last.err = "NoDatabase"
    /\ database # NoneDb /\ collection # NoneColl

\* C2: new(b=X) on a class with the unique field b leaves exactly one
\* document with b == X in the collection it writes to: it succeeds when
\* there was none and raises UniqueConflict when there was one, in every
\* state the class can reach.
C2_UniqueNew ==
    (last.op = "new" /\ last.err \in {"ok", "UniqueConflict"} /\ "b" \in DOMAIN last.arg) =>
        Cardinality({d \in store[last.coll] : d["b"] = Serialize(last.arg["b"])}) = 1

\* The key value instance i was constructed with.
Key(i) == insts[i].vals["_id"]

Retrievals == {"find", "find_one", "query"}

\* C1: while an instance I obtained for key K from new, find, find_one or
\* query is reachable and delete() has not been called on it, every
\* retrieval that yields a document with key K returns I itself, and no
\* other instance is constructed for K.
C1_Identity ==
    [][\A i \in Live \ deleted :
          insts[i].by \in {"new", "_get"} =>
            /\ (last'.op \in Retrievals /\ last'.err = "ok") =>
                  \A n \in 1..Len(last'.ret) :
                     insts'[last'.ret[n]].vals["_id"] = Key(i) => last'.ret[n] = i
            /\ \A j \in (Len(insts) + 1)..Len(insts') :
                  insts'[j].vals["_id"] # Key(i)]_vars

\* C7: after delete() on instance I with key K the document with key K is
\* gone from the store and the cache holds no entry for K; find_one(key=K)
\* returns nothing (no operation here inserts a document under a key that
\* was used before); and no retrieval ever returns I again.
C7_DeleteRemoves ==
    \A i \in deleted :
       /\ (last.op = "delete" /\ last.self = i /\ last.err # "NoCollection") =>
             /\ \A c \in Colls : DocsWithId(c, Key(i)) = {}
             /\ Key(i) \notin DOMAIN weakrefs
       /\ (last.op = "find_one" /\ last.arg = ("_id" :> Key(i))) => last.ret = <<>>
       /\ last.op \in Retrievals \cup {"get_or_create"} =>
             \A n \in 1..Len(last.ret) : last.ret[n] # i

\* C8: update(**changes) writes to the store the keyword arguments that
\* are declared fields, each with its serialized value, and nothing else:
\* no document is added or removed, no other field of any document changes,
\* whatever the instance holds in memory; with no declared field among the
\* arguments no store call is made at all.
C8_UpdateFrame ==
    [][last'.op = "update" =>
         LET kw == last'.arg
             u == DOMAIN kw \cap AnnotationSet
             i == last'.self
             c == last'.coll
         IN  /\ \A c2 \in Colls :
                  /\ {d["_id"] : d \in store'[c2]} = {d["_id"] : d \in store[c2]}
                  /\ \A d \in store[c2] : \A d2 \in store'[c2] :
                        d2["_id"] = d["_id"] =>
                          \A f \in DocFields :
                             d2[f] # d[f] =>
                               /\ c2 = c /\ d["_id"] = Key(i)
                               /\ f \in u /\ d2[f] = Serialize(kw[f])
             /\ (last'.err = "ok" /\ u # {}) =>
                  \A d2 \in store'[c] :
                     d2["_id"] = Key(i) => \A f \in u : d2[f] = Serialize(kw[f])
             /\ u = {} => (store' = store /\ UNCHANGED initVars)]_vars

\* C8 witness: update(b=.., zz=..) has succeeded on an instance whose field a
\* was changed in memory only: the stored document has the new b and still
\* the old a.
C8_Witness ==
    /\ last.op = "update" /\ last.err = "ok" /\ DOMAIN last.arg = {"b", "zz"}
    /\ \E d \in store[last.coll] :
          /\ d["_id"] = Key(last.self)
          /\ d["b"] = Serialize(last.arg["b"])
          /\ d["a"] # Serialize(insts[last.self].vals["a"])

\* C9: get_or_create returns the instance of the first matching document
\* when there is one, and otherwise an instance built from the values
\* supplied.
C9_GetOrCreate ==
    (last.op = "get_or_create" /\ last.err # "NoCollection") =>
        LET docs == FirstOf(Found(GetStoreVals(last.arg)))
        IN  /\ Len(last.ret) = 1
            /\ IF docs # <<>>
               THEN Key(last.ret[1]) = docs[1]["_id"]
               ELSE \A k \in DOMAIN last.arg :
                       insts[last.ret[1]].vals[k] = last.arg[k]

\* The calls that go through get_collection.
CallsGetCollection(l) ==
    \/ l.op \in {"get_collection", "new", "find", "find_one", "query",
                 "delete_all", "delete"}
    \/ l.op = "update" /\ DOMAIN l.arg \cap AnnotationSet # {}

\* C11: get_collection and every operation that goes through it (new, find,
\* find_one, query, delete_all, update with a declared field, delete) fails
\* with NoCollection exactly when the class has neither a bound collection
\* nor a bound database; the failing call makes no store call, creates no
\* index, leaves the class uninitialized and the identity cache unchanged.
C11_NoCollection ==
    [][CallsGetCollection(last') =>
         /\ last'.err = "NoCollection" <=>
               (collection = NoneColl /\ database = NoneDb)
         /\ last'.err = "NoCollection" =>
               /\ store' = store /\ nextId' = nextId
               /\ UNCHANGED initVars /\ ~initialized'
               /\ weakrefs' = weakrefs]_vars

\* C11 witness: new has failed with NoCollection on a class that has a
\* client but neither a database nor a collection.
C11_Witness ==
    /\ last.op = "new" /\ last.err = "NoCollection"
    /\ client # NoClient /\ database = NoneDb /\ collection = NoneColl

\* C12: round trip. For every declared field the value passed to new (the
\* empty value None when none was passed: Model declares no default) is the
\* value of the instance new returns, and of the instance find_one returns
\* for the resulting key, be it the instance new returned (still reachable)
\* or one rebuilt from the stored document after that instance was dropped.
C12_RoundTrip ==
    [][/\ \A i \in 1..Len(insts) : insts'[i].vals = insts[i].vals
       /\ (last'.op = "new" /\ last'.err = "ok") =>
             \A f \in AnnotationSet :
                insts'[last'.ret[1]].vals[f] =
                   IF f \in DOMAIN last'.arg THEN last'.arg[f] ELSE None
       /\ (last'.op = "find_one" /\ last'.err = "ok" /\ last'.ret # <<>>) =>
             \A i \in 1..Len(insts') :
                (insts'[i].by = "new"
                    /\ insts'[i].vals["_id"] = last'.arg["_id"]) =>
                  \A f \in AnnotationSet :
                     insts'[last'.ret[1]].vals[f] = insts'[i].vals[f]]_vars

\* C12 witness: find_one(key=K) has returned an instance rebuilt from the
\* stored document, after the instance new(b=v) returned for K was dropped.
C12_Witness ==
    /\ last.op = "find_one" /\ last.err = "ok" /\ last.ret # <<>>
    /\ insts[last.ret[1]].by = "_get"
    /\ \E i \in 1..Len(insts) :
          /\ insts[i].by = "new" /\ ~insts[i].live
          /\ Key(i) = last.arg["_id"]
          /\ insts[i].vals["b"] \in Vals
          /\ insts[i].vals["a"] = None

\* C13: every instance has a key and was constructed either by new, right
\* after the insert, or by _get from a retrieved document; and every cache
\* entry is stored under the key of the instance it refers to.
C13_InstancesFromStore ==
    /\ \A i \in 1..Len(insts) :
          /\ "_id" \in DOMAIN insts[i].vals
          /\ insts[i].by \in {"new", "_get"}
    /\ \A k \in DOMAIN weakrefs : Key(weakrefs[k]) = k

\* C14: delete_all(filter) deletes from the resolved collection exactly the
\* documents that agree with the filter on each of its fields, touches no
\* other collection, and leaves the identity cache and every instance as
\* they were: no entry is evicted, not even that of a deleted document.
C14_DeleteAllKeepsCache ==
    [][(last'.op = "delete_all" /\ last'.err = "ok") =>
         /\ \A c \in Colls :
               store'[c] =
                  IF c = last'.coll
                  THEN {d \in store[c] :
                          \E k \in DOMAIN last'.arg :
                             d[k] # Serialize(last'.arg[k])}
                  ELSE store[c]
         /\ weakrefs' = weakrefs
         /\ insts' = insts]_vars

\* C14 witness: delete_all(b=v) has deleted the document of a live instance
\* from new, whose cache entry and in-memory values are still there, while
\* a document that did not match is still stored.
C14_Witness ==
    /\ last.op = "delete_all" /\ last.err = "ok" /\ DOMAIN last.arg = {"b"}
    /\ store[last.coll] # {}
    /\ \E i \in Live \ deleted :
          /\ insts[i].by = "new"
          /\ insts[i].vals["b"] = last.arg["b"]
          /\ Key(i) \in DOMAIN weakrefs /\ weakrefs[Key(i)] = i
          /\ \A c \in Colls : DocsWithId(c, Key(i)) = {}

\* C15: a retrieval (find, find_one, query) that comes upon a document whose
\* key has a live cached instance returns that instance and leaves its
\* in-memory values as they are, and changes no other existing instance: it
\* does not refresh from the document. So the instance returned can differ
\* from the stored document and from the filter it matched.
C15_NoRefresh ==
    [][(last'.op \in Retrievals /\ last'.err = "ok") =>
         /\ \A i \in 1..Len(insts) : insts'[i] = insts[i]
         /\ \A n \in 1..Len(last'.ret) :
               LET k == insts'[last'.ret[n]].vals["_id"]
               IN  (k \in DOMAIN weakrefs /\ insts[weakrefs[k]].live) =>
                      /\ last'.ret[n] = weakrefs[k]
                      /\ weakrefs'[k] = weakrefs[k]]_vars

\* C15 witness: find_one(b=v) has returned a cached instance from new whose
\* b in memory is not v, while the stored document it matched has b = v.
C15_Witness ==
    /\ last.op = "find_one" /\ last.err = "ok" /\ DOMAIN last.arg = {"b"}
    /\ last.ret # <<>>
    /\ insts[last.ret[1]].by = "new"
    /\ insts[last.ret[1]].vals["b"] # last.arg["b"]
    /\ \E d \in store[last.coll] :
          /\ d["_id"] = Key(last.ret[1])
          /\ d["b"] = Serialize(last.arg["b"])
          /\ d["b"] # Serialize(insts[last.ret[1]].vals["b"])

\* C16: a cache entry whose instance has been collected counts for nothing:
\* a retrieval of a document whose key has such an entry does what it does
\* for a key with no entry at all. It constructs a new live instance from
\* the stored document, returns it, and leaves the cache entry of the key
\* referring to it, so that it is the one found there from then on.
C16_StaleAsAbsent ==
    [][(last'.op \in Retrievals /\ last'.err = "ok") =>
         \A n \in 1..Len(last'.ret) :
            LET j == last'.ret[n]
                k == insts'[j].vals["_id"]
            IN  (k \notin DOMAIN weakrefs \/ ~insts[weakrefs[k]].live) =>
                   /\ j > Len(insts)
                   /\ insts'[j].live /\ insts'[j].by = "_get"
                   /\ weakrefs'[k] = j
                   /\ \E d \in store[last'.coll] :
                         /\ d["_id"] = k
                         /\ \A f \in AnnotationSet :
                               Serialize(insts'[j].vals[f]) = d[f]]_vars

\* C16 witness: find has returned an instance just constructed for a key
\* whose cache entry referred to a collected instance; the entry now refers
\* to the new one.
C16_Witness ==
    /\ last.op = "find" /\ last.err = "ok" /\ last.ret # <<>>
    /\ \E n \in 1..Len(last.ret) :
          LET j == last.ret[n]
          IN  /\ j = Len(insts) /\ insts[j].by = "_get"
              /\ weakrefs[Key(j)] = j
              /\ \E i \in 1..(j - 1) : Key(i) = Key(j) /\ ~insts[i].live

\* C19: an update that raises UniqueConflict has no effect: the store is as
\* it was and so are the in-memory values of the instance.
C19_ConflictNoEffect ==
    [][(last'.op = "update" /\ last'.err = "UniqueConflict") =>
         /\ store' = store
         /\ insts'[last'.self].vals = insts[last'.self].vals]_vars

\* C20: delete() on an instance whose document and cache entry an earlier
\* delete() on it has removed completes without raising and changes neither
\* the store nor the cache; an entry another instance has registered under
\* the same key since stays.
C20_DeleteIdempotent ==
    [][(/\ last'.op = "delete" /\ last'.err # "NoCollection"
        /\ last'.self \in deleted
        /\ \A c \in Colls : DocsWithId(c, Key(last'.self)) = {}
        /\ (Key(last'.self) \in DOMAIN weakrefs =>
               weakrefs[Key(last'.self)] # last'.self)) =>
         /\ last'.err = "ok"
         /\ store' = store
         /\ weakrefs' = weakrefs]_vars

\* The instance registered last under key k.
LastFor(k) ==
    CHOOSE i \in 1..Len(insts) :
        /\ Key(i) = k
        /\ \A j \in 1..Len(insts) : Key(j) = k => j <= i

\* C17: two threads that retrieve the same key and both pass the cache check
\* of _get before either has registered each construct an instance of their
\* own: whenever two threads have both missed the cache for a key, the
\* instances they return are distinct; and the cache entry of a key refers
\* to the instance that registered last.
C17_RaceTwoInstances ==
    /\ \A k \in DOMAIN weakrefs : weakrefs[k] = LastFor(k)
    /\ \A t1, t2 \in Threads :
          (/\ t1 # t2
           /\ threads[t1].pc = "done" /\ threads[t1].miss
           /\ threads[t2].pc = "done" /\ threads[t2].miss
           /\ threads[t1].doc["_id"] = threads[t2].doc["_id"]) =>
             /\ threads[t1].ret # threads[t2].ret
             /\ Key(threads[t1].ret) = threads[t1].doc["_id"]
             /\ Key(threads[t2].ret) = threads[t2].doc["_id"]

\* C17 witness: two threads are about to return two distinct instances for
\* the same key, both live; the cache entry refers to the later one.
C17_Witness ==
    \E t1, t2 \in Threads :
       /\ threads[t1].pc = "done" /\ threads[t1].miss
       /\ threads[t2].pc = "done" /\ threads[t2].miss
       /\ threads[t1].ret < threads[t2].ret
       /\ Key(threads[t1].ret) = Key(threads[t2].ret)
       /\ insts[threads[t1].ret].live /\ insts[threads[t2].ret].live
       /\ weakrefs[Key(threads[t1].ret)] = threads[t2].ret

\* C18: every thread that has read the initialized flag as False on its
\* get_collection call issues create_index for each unique field, whether
\* or not another thread has initialized the class in the meantime; so two
\* threads making the first call can create the same index twice.
C18_RaceIndexTwice ==
    [][\A t \in Threads :
          (threads[t].pc = "init" /\ threads'[t].pc # "init") =>
             /\ indexLog' = indexLog \o IndexCalls(threads[t].coll)
             /\ initialized']_vars

\* C18 witness: create_index has been issued twice for the unique field b
\* on the same collection.
C18_Witness ==
    /\ IndexCount("b") = 2
    /\ indexLog[1] = indexLog[2]

\* The number of key-marked fields of a declaration.
NumKeys(d) == Cardinality({i \in DOMAIN d : d[i][2] = "key"})

\* C6: defining a class raises MultipleKeys, and does not register the
\* class, exactly when its declaration has two or more key-marked fields.
C6_MultipleKeys ==
    declState # "undefined" =>
        (declState = "MultipleKeys" <=> NumKeys(decl) >= 2)

====
